---- MODULE Spec2Model ----
(***************************************************************************)
(* A model of src/main/cpp/option_processor.cc: the rc-file parser with    *)
(* recursive imports (RcFile::Parse), the top-level driver (ParseOptions), *)
(* the startup-option merge (ParseStartupOptions) and the argument vector  *)
(* assembler (AddRcfileArgsAndOptions).                                    *)
(*                                                                         *)
(* C++ strings are TLA+ strings.  A file is what ReadFile, Replace, Split, *)
(* StripWhitespace and Tokenize make of it: a sequence of lines, each line *)
(* the sequence of its words (a blank or comment-only line has no words).  *)
(* The collaborators that are not part of option_processor.cc (the         *)
(* startup-option validator, the candidate path finder, the file system,   *)
(* the terminal, the environment) answer nondeterministically.             *)
(***************************************************************************)
EXTENDS Integers, Sequences, FiniteSets, TLC

(***************************************************************************)
(* Bounds of the model.                                                    *)
(***************************************************************************)
\* the number of rc lines, over all files, one run may read
MaxRcLines == 3
\* the number of raw arguments after the program name
MaxArgs == 3

(***************************************************************************)
(* Strings and small helpers.                                              *)
(***************************************************************************)
NULL == <<>>

Some(s) == <<s>>

SeqsUpTo(S, n) == UNION {[1..k -> S] : k \in 0..n}

\* blaze_util::starts_with
starts_with(s, prefix) ==
  /\ Len(s) >= Len(prefix)
  /\ SubSeq(s, 1, Len(prefix)) = prefix

Digits == <<"0", "1", "2", "3", "4", "5", "6", "7", "8", "9">>

\* blaze::ToString(int)
RECURSIVE IntToString(_)
IntToString(n) ==
  IF n < 10 THEN Digits[n + 1]
  ELSE IntToString(n \div 10) \o Digits[(n % 10) + 1]

BoolToString(b) == IF b THEN "1" ELSE "0"

\* blaze_util::JoinPath
JoinPath(a, b) == IF a = "" THEN b ELSE IF b = "" THEN a ELSE a \o "/" \o b

RECURSIVE JoinWords(_)
JoinWords(ws) ==
  IF ws = <<>> THEN ""
  ELSE IF Len(ws) = 1 THEN ws[1]
  ELSE ws[1] \o " " \o JoinWords(Tail(ws))

(***************************************************************************)
(* The fixed surroundings of a run.                                        *)
(***************************************************************************)
Workspace == "/ws"
Cwd == "/ws/pkg"
HomeDir == "/h"
RcBasename == ".bazelrc"
WorkspacePrefix == "%workspace%/"
WorkspacePrefixLength == Len(WorkspacePrefix)

WsRc == JoinPath(Workspace, RcBasename)
HomeRc == JoinPath(HomeDir, RcBasename)
MasterRc == "/m"
ImportedRc == "/i"
CmdLineRc == "/u"

\* what the candidate path finder may answer
FinderResults ==
  {<<>>, <<MasterRc>>, <<MasterRc, WsRc>>}

\* the lines an rc file is made of
RcLines ==
  { <<"import", MasterRc>>,
    <<"import", ImportedRc>>,
    <<"import", WorkspacePrefix \o RcBasename>>,
    <<"import">>,
    <<"build", "-o", "v">>,
    <<"test", "-t">>,
    <<"startup", "-s">>,
    <<"startup", "v">>,
    <<"startup">>,
    <<>> }

\* the raw arguments after the program name
ArgTokens ==
  {"-s", "build", "--help", "", "--nomaster_bazelrc", "--nomaster_blazerc",
   "--bazelrc=" \o CmdLineRc, "--blazerc"}

\* what IsStandardTerminal, GetTerminalColumns and IsEmacsTerminal may answer
Terminals ==
  { [isatty |-> TRUE, columns |-> 80, emacs |-> FALSE],
    [isatty |-> FALSE, columns |-> 132, emacs |-> TRUE] }

\* what environ may hold
Environments == { <<>>, <<"PATH=/a:/b", "TMP=/t", "NOEQ">> }

\* the surroundings of a run: parsed_startup_options_->batch, the terminal,
\* environ, HOME, and whether WorkspaceRelativizeRcFilePath succeeds
Clients ==
  [batch : BOOLEAN, terminal : Terminals, env : Environments,
   home : {NULL, Some(HomeDir)}, relativizes : BOOLEAN]

DefaultClient ==
  [batch |-> FALSE,
   home |-> NULL,
   relativizes |-> TRUE,
   terminal |-> [isatty |-> TRUE, columns |-> 80, emacs |-> FALSE],
   env |-> <<"PATH=/a:/b", "TMP=/t", "NOEQ">>]

ValidatorErrorCodes == {"BAD_ARGV", "LOCAL_ENVIRONMENTAL_ERROR"}

VARIABLES
  args,                    \* the raw arguments of ParseOptions (args_ is its copy)
  client,                  \* the batch flag, the terminal and the environment
  pc,                      \* where ParseOptions is
  blazerc,                 \* the --blazerc/--bazelrc value, NULL or Some(path)
  use_master_blazerc,
  finder_log,              \* what FindCandidateBlazercPaths answered, per invocation
  candidate_blazerc_paths,
  candidate_i,             \* the range-for position in candidate_blazerc_paths
  blazerc_paths,           \* the set<string> used to dedupe
  blazercs_,               \* vector<RcFile*>: records [filename, index]
  rcoptions_,              \* map<string, vector<RcOption>>
  fs,                      \* the files read so far: path -> lines
  budget,                  \* the rc lines this run may still read
  frames,                  \* the chain of RcFile::Parse calls in progress
  import_stack,            \* list<string>* import_stack
  parse_exit_code,         \* the exit code travelling up the Parse calls
  startup_i,               \* the index i of ParseStartupOptions
  calls,                   \* the ProcessArg calls made so far
  startup_args_,
  command_,
  command_arguments_,
  assembled,               \* command_arguments_ as AddRcfileArgsAndOptions left it
  exit_code,               \* what ParseOptions returned, "NONE" while it runs
  returned_from,           \* where ParseOptions was when it returned
  error

vars ==
  <<args, client, pc, blazerc, use_master_blazerc, finder_log, candidate_blazerc_paths,
    candidate_i, blazerc_paths, blazercs_, rcoptions_, fs, budget, frames,
    import_stack, parse_exit_code, startup_i, calls, startup_args_, command_,
    command_arguments_, assembled, exit_code, returned_from, error>>

inputVars == <<args, client>>

rcVars == <<blazercs_, rcoptions_, fs, budget, frames, import_stack, parse_exit_code>>

candidateVars == <<candidate_blazerc_paths, candidate_i, blazerc_paths>>

startupVars == <<startup_i, calls, startup_args_>>

outputVars == <<command_, command_arguments_, assembled>>

scanVars == <<blazerc, use_master_blazerc, finder_log>>

resultVars == <<exit_code, returned_from, error>>

(***************************************************************************)
(* Construction: OptionProcessor::OptionProcessor and the caller's inputs. *)
(***************************************************************************)
InitState(a, b, c) ==
  /\ args = a
  /\ client = c
  /\ budget = b
  /\ pc = "scan"
  /\ blazerc = NULL
  /\ use_master_blazerc = TRUE
  /\ finder_log = <<>>
  /\ candidate_blazerc_paths = <<>>
  /\ candidate_i = 1
  /\ blazerc_paths = {}
  /\ blazercs_ = <<>>
  /\ rcoptions_ = <<>>
  /\ fs = <<>>
  /\ frames = <<>>
  /\ import_stack = <<>>
  /\ parse_exit_code = "SUCCESS"
  /\ startup_i = 0
  /\ calls = <<>>
  /\ startup_args_ = 0
  /\ command_ = ""
  /\ command_arguments_ = <<>>
  /\ assembled = <<>>
  /\ exit_code = "NONE"
  /\ returned_from = ""
  /\ error = ""

\* runs that read rc files of up to MaxRcLines lines, under one command line
InitRc == InitState(<<"bazel", "build", "t">>, MaxRcLines, DefaultClient)

\* runs with startup options in the rc files and on the command line
InitStartup ==
  \E a \in {<<"bazel", "-s", "v", "build">>, <<"bazel", "-s">>} :
    InitState(a, MaxRcLines - 1, DefaultClient)

\* runs over every command line of up to MaxArgs arguments, with empty rc files
InitArgs ==
  \E a \in SeqsUpTo(ArgTokens, MaxArgs) :
    \/ InitState(<<"bazel">> \o a, 0, DefaultClient)
    \/ a = <<>> /\ InitState(<<>>, 0, DefaultClient)

\* runs under every client, with rc files of one line
InitClient ==
  \E c \in Clients : InitState(<<"bazel", "build", "t">>, 1, c)

Init == InitRc \/ InitStartup \/ InitArgs \/ InitClient

Return(code, message) ==
  /\ pc' = "done"
  /\ returned_from' = pc
  /\ exit_code' = code
  /\ error' = message

(***************************************************************************)
(* ParseOptions, lines 218-242: the scan for the rc related options.       *)
(***************************************************************************)
\* blaze_util GetUnaryOption: the value of `key value` or `key=value`
GetUnaryOption(arg, next_arg, key) ==
  IF arg = key THEN next_arg
  ELSE IF starts_with(arg, key \o "=")
       THEN Some(SubSeq(arg, Len(key) + 2, Len(arg)))
       ELSE NULL

\* blaze_util GetNullaryOption
GetNullaryOption(arg, key) == arg = key

NextArg(a, i) == IF i + 1 <= Len(a) THEN Some(a[i + 1]) ELSE NULL

\* args[i] as the loop body sees it; the C++ loop index i is i - 1 here
BlazercAt(a, i, cur) ==
  LET first == IF cur = NULL THEN GetUnaryOption(a[i], NextArg(a, i), "--blazerc")
               ELSE cur
  IN IF first = NULL THEN GetUnaryOption(a[i], NextArg(a, i), "--bazelrc")
     ELSE first

RECURSIVE ScanBlazerc(_, _, _)
ScanBlazerc(a, i, cur) ==
  IF i > Len(a) THEN cur ELSE ScanBlazerc(a, i + 1, BlazercAt(a, i, cur))

\* only one of the two spellings is looked for
NoMasterAtBlazercOnly(a, i) == GetNullaryOption(a[i], "--nomaster_blazerc")

\* lines 237-239
NoMasterAt(a, i) ==
  \/ GetNullaryOption(a[i], "--nomaster_blazerc")
  \/ GetNullaryOption(a[i], "--nomaster_bazelrc")

RECURSIVE ScanUseMaster(_, _, _)
ScanUseMaster(a, i, cur) ==
  IF i > Len(a) THEN cur
  ELSE ScanUseMaster(a, i + 1, IF cur /\ NoMasterAt(a, i) THEN FALSE ELSE cur)

ScanArgs ==
  /\ pc = "scan"
  /\ blazerc' = ScanBlazerc(args, 2, NULL)
  /\ use_master_blazerc' = ScanUseMaster(args, 2, TRUE)
  /\ pc' = "validate"
  /\ UNCHANGED <<inputVars, finder_log, candidateVars, rcVars, startupVars,
                 outputVars, resultVars>>

(***************************************************************************)
(* ParseOptions, lines 244-248: StartupOptions::ValidateStartupOptions.    *)
(***************************************************************************)
ValidateStartupOptions ==
  /\ pc = "validate"
  /\ \/ pc' = "find" /\ UNCHANGED resultVars
     \/ \E code \in ValidatorErrorCodes : Return(code, "invalid startup options")
  /\ UNCHANGED <<inputVars, scanVars, candidateVars, rcVars, startupVars, outputVars>>

(***************************************************************************)
(* ParseOptions, lines 253-257: the candidate path finder.                 *)
(***************************************************************************)
FindCandidateBlazercPaths ==
  /\ pc = "find"
  /\ IF use_master_blazerc
     THEN \E paths \in FinderResults :
            /\ candidate_blazerc_paths' = paths
            /\ finder_log' = Append(finder_log, paths)
     ELSE UNCHANGED <<candidate_blazerc_paths, finder_log>>
  /\ pc' = "user"
  /\ UNCHANGED <<inputVars, blazerc, use_master_blazerc, candidate_i, blazerc_paths,
                 rcVars, startupVars, outputVars, resultVars>>

(***************************************************************************)
(* FindUserBlazerc, lines 175-211, and its call, lines 259-266.            *)
(* canRc, canWs, canHome: what CanAccess answers; home: getenv("HOME").    *)
(* The result is <<exit code, path, error>>.                               *)
(***************************************************************************)
MakeAbsolute(path) == IF starts_with(path, "/") THEN path ELSE JoinPath(Cwd, path)

FindUserBlazerc(cmdLineRcFile, rc_basename, workspace, canRc, canWs, home, canHome) ==
  IF cmdLineRcFile # NULL
  THEN LET rcFile == MakeAbsolute(cmdLineRcFile[1])
       IN IF ~canRc
          THEN <<"BAD_ARGV", "",
                 "Error: Unable to read .blazerc file '" \o rcFile \o "'.">>
          ELSE <<"SUCCESS", rcFile, "">>
  ELSE IF canWs THEN <<"SUCCESS", JoinPath(workspace, rc_basename), "">>
  ELSE IF home = NULL THEN <<"SUCCESS", "", "">>
  ELSE IF canHome THEN <<"SUCCESS", JoinPath(home[1], rc_basename), "">>
  ELSE <<"SUCCESS", "", "">>

FindUserBlazercCall ==
  /\ pc = "user"
  /\ \E canRc \in BOOLEAN, canWs \in BOOLEAN, canHome \in BOOLEAN :
       LET r == FindUserBlazerc(blazerc, RcBasename, Workspace, canRc, canWs,
                                client.home, canHome)
       IN IF r[1] # "SUCCESS"
          THEN Return(r[1], r[3]) /\ UNCHANGED candidate_blazerc_paths
          ELSE /\ candidate_blazerc_paths' = Append(candidate_blazerc_paths, r[2])
               /\ pc' = "rcloop"
               /\ UNCHANGED resultVars
  /\ UNCHANGED <<inputVars, scanVars, candidate_i, blazerc_paths, rcVars,
                 startupVars, outputVars>>

(***************************************************************************)
(* RcFile::Parse, lines 53-162.                                            *)
(***************************************************************************)
\* an index taken after the push_back instead of before it
RcFileIndexFromOne(filename, index) == [filename |-> filename, index |-> index + 1]

\* lines 49-51, with the index lines 135 and 276 pass: rcfiles->size()
RcFile(filename, index) == [filename |-> filename, index |-> index]

RcOption(rcfile_index, option) == [rcfile_index |-> rcfile_index, option |-> option]

Frame(filename, index) == [filename |-> filename, index |-> index, line |-> 1]

TopFrame == frames[Len(frames)]

\* the words of the line the innermost Parse call is at
CurrentWords == fs[TopFrame.filename][TopFrame.line]

AtLine ==
  /\ pc = "parse"
  /\ parse_exit_code = "SUCCESS"
  /\ frames # <<>>
  /\ TopFrame.line <= Len(fs[TopFrame.filename])

NextLine(fr) == [fr EXCEPT ![Len(fr)].line = @ + 1]

\* the files ReadFile may find under a path not read before
Contents(n) == SeqsUpTo(RcLines, n)

\* lines 73-87: the callee reads its file; callers is the chain that called it
EnterParse(filename, index, callers) ==
  \/ /\ parse_exit_code' = "INTERNAL_ERROR"
     /\ error' = "Unexpected error reading .blazerc file '" \o filename \o "'"
     /\ frames' = callers
     /\ UNCHANGED <<fs, budget>>
  \/ /\ IF filename \in DOMAIN fs
        THEN UNCHANGED <<fs, budget>>
        ELSE \E c \in Contents(budget) :
               /\ fs' = fs @@ (filename :> c)
               /\ budget' = budget - Len(c)
     /\ frames' = Append(callers, Frame(filename, index))
     /\ UNCHANGED <<parse_exit_code, error>>

\* lines 91-108: a blank line or a comment
ParseSkipLine ==
  /\ AtLine
  /\ CurrentWords = <<>>
  /\ frames' = NextLine(frames)
  /\ UNCHANGED <<inputVars, pc, scanVars, candidateVars, blazercs_, rcoptions_, fs,
                 budget, import_stack, parse_exit_code, startupVars, outputVars,
                 resultVars>>

IsImport(words) == words # <<>> /\ words[1] = "import"

HasWorkspacePrefix(word) == starts_with(word, WorkspacePrefix)

\* WorkspaceLayout::WorkspaceRelativizeRcFilePath, when it succeeds
WorkspaceRelativizeRcFilePath(workspace, word) ==
  JoinPath(workspace, SubSeq(word, WorkspacePrefixLength + 1, Len(word)))

\* lines 113-117, relOk: whether WorkspaceRelativizeRcFilePath succeeded
InvalidImport(words, relOk) ==
  IF Len(words) # 2 THEN TRUE ELSE HasWorkspacePrefix(words[2]) /\ ~relOk

\* words[1] of the C++ code after line 117
ImportTarget(words) ==
  IF HasWorkspacePrefix(words[2])
  THEN WorkspaceRelativizeRcFilePath(Workspace, words[2])
  ELSE words[2]

\* lines 118-121
ParseInvalidImport ==
  /\ AtLine
  /\ IsImport(CurrentWords)
  /\ InvalidImport(CurrentWords, client.relativizes)
  /\ parse_exit_code' = "BAD_ARGV"
  /\ error' = "Invalid import declaration in .blazerc file '" \o TopFrame.filename
                \o "': '" \o JoinWords(CurrentWords) \o "'"
  /\ UNCHANGED <<inputVars, pc, scanVars, candidateVars, blazercs_, rcoptions_, fs,
                 budget, frames, import_stack, startupVars, outputVars, exit_code, returned_from>>

\* a std::find that looks at the innermost file only
OnImportStackInnermostOnly(stack, name) ==
  stack # <<>> /\ stack[Len(stack)] = name

\* a std::find that looks at the top-level file only
OnImportStackTopLevelOnly(stack, name) ==
  stack # <<>> /\ stack[1] = name

\* line 123: std::find over the import stack
OnImportStack(stack, name) == \E i \in 1..Len(stack) : stack[i] = name

RECURSIVE LoopLines(_)
LoopLines(stack) ==
  IF stack = <<>> THEN ""
  ELSE "  " \o Head(stack) \o "\n" \o LoopLines(Tail(stack))

\* lines 125-131
ImportLoopMessage(stack) == "Import loop detected:\n" \o LoopLines(stack)

\* lines 123-133
ParseImportLoop ==
  /\ AtLine
  /\ IsImport(CurrentWords)
  /\ ~InvalidImport(CurrentWords, client.relativizes)
  /\ OnImportStack(import_stack, ImportTarget(CurrentWords))
  /\ parse_exit_code' = "BAD_ARGV"
  /\ error' = ImportLoopMessage(import_stack)
  /\ UNCHANGED <<inputVars, pc, scanVars, candidateVars, blazercs_, rcoptions_, fs,
                 budget, frames, import_stack, startupVars, outputVars, exit_code, returned_from>>

\* lines 135-140: the import is followed; the caller resumes after this line
ParseImport ==
  /\ AtLine
  /\ IsImport(CurrentWords)
  /\ ~InvalidImport(CurrentWords, client.relativizes)
  /\ ~OnImportStack(import_stack, ImportTarget(CurrentWords))
  /\ blazercs_' = Append(blazercs_, RcFile(ImportTarget(CurrentWords), Len(blazercs_)))
  /\ import_stack' = Append(import_stack, ImportTarget(CurrentWords))
  /\ EnterParse(ImportTarget(CurrentWords), Len(blazercs_), NextLine(frames))
  /\ UNCHANGED <<inputVars, pc, scanVars, candidateVars, rcoptions_, startupVars,
                 outputVars, exit_code, returned_from>>

\* an option put in front of the command's options
PushOptionInFront(rcoptions, command, option) ==
  IF command \in DOMAIN rcoptions
  THEN [rcoptions EXCEPT ![command] = <<option>> \o @]
  ELSE rcoptions @@ (command :> <<option>>)

\* line 147: (*rcoptions)[command].push_back(RcOption(index, word))
PushOption(rcoptions, command, option) ==
  IF command \in DOMAIN rcoptions
  THEN [rcoptions EXCEPT ![command] = Append(@, option)]
  ELSE rcoptions @@ (command :> <<option>>)

\* a loop that looks the command up in the map before its first round
RECURSIVE PushWordsCreatesKey(_, _, _, _)
PushWordsCreatesKey(rcoptions, index, words, word) ==
  IF word > Len(words)
  THEN (IF words[1] \in DOMAIN rcoptions THEN rcoptions
        ELSE rcoptions @@ (words[1] :> <<>>))
  ELSE PushWordsCreatesKey(PushOption(rcoptions, words[1], RcOption(index, words[word])),
                           index, words, word + 1)

\* lines 146-151, from word on (words[1] is the command)
RECURSIVE PushWords(_, _, _, _)
PushWords(rcoptions, index, words, word) ==
  IF word > Len(words) THEN rcoptions
  ELSE PushWords(PushOption(rcoptions, words[1], RcOption(index, words[word])),
                 index, words, word + 1)

\* lines 145-152
ParseOptionsLine ==
  /\ AtLine
  /\ CurrentWords # <<>>
  /\ ~IsImport(CurrentWords)
  /\ rcoptions_' = PushWords(rcoptions_, TopFrame.index, CurrentWords, 2)
  /\ frames' = NextLine(frames)
  /\ UNCHANGED <<inputVars, pc, scanVars, candidateVars, blazercs_, fs, budget,
                 import_stack, parse_exit_code, startupVars, outputVars, resultVars>>

\* an importer that leaves the callee on the import stack
PopImportStackForgotten(stack) == stack

\* lines 141-144: what the importer does with import_stack when the callee
\* has returned SUCCESS
PopImportStack(stack) == SubSeq(stack, 1, Len(stack) - 1)

\* lines 153-161 of an imported file, and lines 141-144 of its importer
ParseReturn ==
  /\ pc = "parse"
  /\ parse_exit_code = "SUCCESS"
  /\ Len(frames) > 1
  /\ TopFrame.line > Len(fs[TopFrame.filename])
  /\ frames' = SubSeq(frames, 1, Len(frames) - 1)
  /\ import_stack' = PopImportStack(import_stack)
  /\ UNCHANGED <<inputVars, pc, scanVars, candidateVars, blazercs_, rcoptions_, fs,
                 budget, parse_exit_code, startupVars, outputVars, resultVars>>

\* an importer that goes on with its next line after a failed import
ParseReturnErrorIgnored ==
  /\ pc = "parse"
  /\ parse_exit_code # "SUCCESS"
  /\ frames # <<>>
  /\ frames' = SubSeq(frames, 1, Len(frames) - 1)
  /\ parse_exit_code' = (IF Len(frames) > 1 THEN "SUCCESS" ELSE parse_exit_code)
  /\ UNCHANGED <<inputVars, pc, scanVars, candidateVars, blazercs_, rcoptions_, fs,
                 budget, import_stack, startupVars, outputVars, resultVars>>

\* lines 141-143: an error of the callee is returned at once
ParseReturnError ==
  /\ pc = "parse"
  /\ parse_exit_code # "SUCCESS"
  /\ frames # <<>>
  /\ frames' = SubSeq(frames, 1, Len(frames) - 1)
  /\ UNCHANGED <<inputVars, pc, scanVars, candidateVars, blazercs_, rcoptions_, fs,
                 budget, import_stack, parse_exit_code, startupVars, outputVars,
                 resultVars>>

\* the command line's startup options handled before the rc files'
NextPhaseCommandLineFirst(phase) ==
  CASE phase = "rcloop" -> "phaseB"
    [] phase = "phaseB" -> "phaseA"
    [] phase = "phaseA" -> "command"

\* the order of lines 285-297: the rc files' startup options, then the
\* command line's, then the command
NextPhase(phase) ==
  CASE phase = "rcloop" -> "phaseA"
    [] phase = "phaseA" -> "phaseB"
    [] phase = "phaseB" -> "command"

\* lines 334 and 365: where i starts
FirstIndex(phase) == IF phase = "phaseB" THEN 1 ELSE 0

(***************************************************************************)
(* ParseOptions, lines 268-283: the loop over the candidate paths.         *)
(***************************************************************************)
AtCandidate ==
  /\ pc = "rcloop"
  /\ candidate_i <= Len(candidate_blazerc_paths)

CandidatePath == candidate_blazerc_paths[candidate_i]

\* a filter without the set that dedupes
IsNewCandidateNoDedupe(path, seen) == path # ""

\* lines 273-274: the candidate is a file to parse
IsNewCandidate(path, seen) == path # "" /\ path \notin seen

RcLoopSkip ==
  /\ AtCandidate
  /\ ~IsNewCandidate(CandidatePath, blazerc_paths)
  /\ candidate_i' = candidate_i + 1
  /\ UNCHANGED <<inputVars, pc, scanVars, candidate_blazerc_paths, blazerc_paths,
                 rcVars, startupVars, outputVars, resultVars>>

\* lines 275-278 and 58-62: a top-level file is parsed
RcLoopParse ==
  /\ AtCandidate
  /\ IsNewCandidate(CandidatePath, blazerc_paths)
  /\ blazerc_paths' = blazerc_paths \cup {CandidatePath}
  /\ blazercs_' = Append(blazercs_, RcFile(CandidatePath, Len(blazercs_)))
  /\ import_stack' = <<CandidatePath>>
  /\ EnterParse(CandidatePath, Len(blazercs_), <<>>)
  /\ pc' = "parse"
  /\ UNCHANGED <<inputVars, scanVars, candidate_blazerc_paths, candidate_i,
                 rcoptions_, startupVars, outputVars, exit_code, returned_from>>

\* lines 153-161 of a top-level file, and the loop's next round
RcLoopNext ==
  /\ pc = "parse"
  /\ parse_exit_code = "SUCCESS"
  /\ Len(frames) = 1
  /\ TopFrame.line > Len(fs[TopFrame.filename])
  /\ frames' = <<>>
  /\ import_stack' = <<>>
  /\ candidate_i' = candidate_i + 1
  /\ pc' = "rcloop"
  /\ UNCHANGED <<inputVars, scanVars, candidate_blazerc_paths, blazerc_paths,
                 blazercs_, rcoptions_, fs, budget, parse_exit_code, startupVars,
                 outputVars, resultVars>>

\* lines 279-281
RcLoopFail ==
  /\ pc = "parse"
  /\ parse_exit_code # "SUCCESS"
  /\ frames = <<>>
  /\ Return(parse_exit_code, error)
  /\ UNCHANGED <<inputVars, scanVars, candidateVars, rcVars, startupVars, outputVars>>

\* line 283: no candidate is left, and lines 285-286
RcLoopEnd ==
  /\ pc = "rcloop"
  /\ candidate_i > Len(candidate_blazerc_paths)
  /\ pc' = NextPhase("rcloop")
  /\ startup_i' = FirstIndex(NextPhase("rcloop"))
  /\ UNCHANGED <<inputVars, scanVars, candidateVars, rcVars, calls, startup_args_,
                 outputVars, resultVars>>

(***************************************************************************)
(* ParseStartupOptions, lines 321-389.                                     *)
(***************************************************************************)
IsArg(arg) ==
  /\ starts_with(arg, "-")
  /\ arg # "--help"
  /\ arg # "-help"
  /\ arg # "-h"

\* one call of StartupOptions::ProcessArg and what it answered; phase and
\* index tell which loop made the call and at which i
ProcessArgCall(arg, next_arg, rcfile, phase, index, answer) ==
  [arg |-> arg, next_arg |-> next_arg, rcfile |-> rcfile, phase |-> phase,
   index |-> index, answer |-> answer]

HasStartup == "startup" \in DOMAIN rcoptions_

\* line 333
StartupOptions == rcoptions_["startup"]

\* line 336: i < startup_options.size() - 1, the right side being unsigned
InPhaseALoop(i, size) == IF size = 0 THEN TRUE ELSE i < size - 1

\* lines 338 and 353: blazercs_[option.rcfile_index()]->Filename()
BlazercOf(option) == blazercs_[option.rcfile_index + 1].filename

\* what the validator answers: it rejects the flag with an exit code, or it
\* accepts it and tells whether next_arg was its space-separated value
ValidatorAnswers ==
  [code : {"SUCCESS"}, is_space_separated : BOOLEAN]
    \cup [code : ValidatorErrorCodes, is_space_separated : {FALSE}]

\* a check for one error code instead of anything but SUCCESS
RejectedOnlyBadArgv(answer) == answer.code = "BAD_ARGV"

\* lines 342, 356, 370 and 380: process_arg_exit_code != blaze_exit_code::SUCCESS
Rejected(answer) == answer.code # "SUCCESS"

RejectMessage(arg) == "Unknown startup option: '" \o arg \o "'."

\* a loop that never skips the value
AdvanceByOne(i, is_space_separated) == i + 1

\* lines 345-347 and 373-375: how far the loop moves on
Advance(i, is_space_separated) == IF is_space_separated THEN i + 2 ELSE i + 1

\* lines 336-348
PhaseAPair ==
  /\ pc = "phaseA"
  /\ HasStartup
  /\ InPhaseALoop(startup_i, Len(StartupOptions))
  /\ LET option == StartupOptions[startup_i + 1]
         next == StartupOptions[startup_i + 2]
     IN \E answer \in ValidatorAnswers :
          /\ calls' = Append(calls, ProcessArgCall(option.option, next.option,
                                                   BlazercOf(option), "A", startup_i,
                                                   answer))
          /\ IF Rejected(answer)
             THEN Return(answer.code, RejectMessage(option.option))
                  /\ UNCHANGED startup_i
             ELSE /\ startup_i' = Advance(startup_i, answer.is_space_separated)
                  /\ UNCHANGED <<pc, resultVars>>
  /\ UNCHANGED <<inputVars, scanVars, candidateVars, rcVars, startup_args_, outputVars>>

\* a last element passed to the validator whatever it looks like
PhaseAHasLastAnyToken(i) ==
  /\ HasStartup
  /\ ~InPhaseALoop(i, Len(StartupOptions))
  /\ i < Len(StartupOptions)

\* lines 350-352: the last element is there and is passed to the validator
PhaseAHasLast(i) ==
  /\ HasStartup
  /\ ~InPhaseALoop(i, Len(StartupOptions))
  /\ i < Len(StartupOptions)
  /\ IsArg(StartupOptions[i + 1].option)

\* lines 350-360
PhaseALast ==
  /\ pc = "phaseA"
  /\ PhaseAHasLast(startup_i)
  /\ LET option == StartupOptions[startup_i + 1]
     IN \E answer \in ValidatorAnswers :
          /\ calls' = Append(calls, ProcessArgCall(option.option, "", BlazercOf(option),
                                                   "A", startup_i, answer))
          /\ IF Rejected(answer)
             THEN Return(answer.code, RejectMessage(option.option))
                  /\ UNCHANGED startup_i
             ELSE /\ startup_i' = FirstIndex(NextPhase("phaseA"))
                  /\ pc' = NextPhase("phaseA")
                  /\ UNCHANGED resultVars
  /\ UNCHANGED <<inputVars, scanVars, candidateVars, rcVars, startup_args_, outputVars>>

\* lines 332, 350, 352 when nothing is left to pass on
PhaseAEnd ==
  /\ pc = "phaseA"
  /\ HasStartup => ~InPhaseALoop(startup_i, Len(StartupOptions))
  /\ ~PhaseAHasLast(startup_i)
  /\ startup_i' = FirstIndex(NextPhase("phaseA"))
  /\ pc' = NextPhase("phaseA")
  /\ UNCHANGED <<inputVars, scanVars, candidateVars, rcVars, calls, startup_args_,
                 outputVars, resultVars>>

\* line 367: (i < args_.size() - 1) && IsArg(args_[i])
InPhaseBLoop(a, i) ==
  /\ a # <<>>
  /\ i < Len(a) - 1
  /\ IsArg(a[i + 1])

\* line 377
PhaseBHasLast(a, i) ==
  /\ a # <<>>
  /\ i < Len(a)
  /\ IsArg(a[i + 1])

\* lines 367-376
PhaseBPair ==
  /\ pc = "phaseB"
  /\ InPhaseBLoop(args, startup_i)
  /\ \E answer \in ValidatorAnswers :
       /\ calls' = Append(calls, ProcessArgCall(args[startup_i + 1], args[startup_i + 2],
                                                "", "B", startup_i, answer))
       /\ IF Rejected(answer)
          THEN Return(answer.code, RejectMessage(args[startup_i + 1]))
               /\ UNCHANGED startup_i
          ELSE /\ startup_i' = Advance(startup_i, answer.is_space_separated)
               /\ UNCHANGED <<pc, resultVars>>
  /\ UNCHANGED <<inputVars, scanVars, candidateVars, rcVars, startup_args_, outputVars>>

\* the boundary one argument too far
StartupArgsOffByOne(i) == i

\* line 386
StartupArgs(i) == i - 1

\* lines 377-388
PhaseBLast ==
  /\ pc = "phaseB"
  /\ ~InPhaseBLoop(args, startup_i)
  /\ PhaseBHasLast(args, startup_i)
  /\ \E answer \in ValidatorAnswers :
       /\ calls' = Append(calls, ProcessArgCall(args[startup_i + 1], "", "", "B",
                                                startup_i, answer))
       /\ IF Rejected(answer)
          THEN Return(answer.code, RejectMessage(args[startup_i + 1]))
               /\ UNCHANGED <<startup_i, startup_args_>>
          ELSE /\ startup_args_' = StartupArgs(startup_i + 1)
               /\ startup_i' = FirstIndex(NextPhase("phaseB"))
               /\ pc' = NextPhase("phaseB")
               /\ UNCHANGED resultVars
  /\ UNCHANGED <<inputVars, scanVars, candidateVars, rcVars, outputVars>>

\* lines 366, 377 when no argument is left to pass on, then lines 386-388
PhaseBEnd ==
  /\ pc = "phaseB"
  /\ ~InPhaseBLoop(args, startup_i)
  /\ ~PhaseBHasLast(args, startup_i)
  /\ startup_args_' = StartupArgs(startup_i)
  /\ startup_i' = FirstIndex(NextPhase("phaseB"))
  /\ pc' = NextPhase("phaseB")
  /\ UNCHANGED <<inputVars, scanVars, candidateVars, rcVars, calls, outputVars,
                 resultVars>>

(***************************************************************************)
(* ParseOptions, lines 291-304: the command and its arguments.             *)
(***************************************************************************)
\* line 292
NoCommandGiven(a, startup_args) == startup_args + 1 >= Len(a)

\* lines 292-295
NoCommand ==
  /\ pc = "command"
  /\ NoCommandGiven(args, startup_args_)
  /\ command_' = ""
  /\ Return("SUCCESS", error)
  /\ UNCHANGED <<inputVars, scanVars, candidateVars, rcVars, startupVars,
                 command_arguments_, assembled>>

\* line 297
DetermineCommand ==
  /\ pc = "command"
  /\ ~NoCommandGiven(args, startup_args_)
  /\ command_' = args[startup_args_ + 2]
  /\ pc' = "assemble"
  /\ UNCHANGED <<inputVars, scanVars, candidateVars, rcVars, startupVars,
                 command_arguments_, assembled, resultVars>>

(***************************************************************************)
(* AddRcfileArgsAndOptions, lines 395-452.                                 *)
(***************************************************************************)
\* blaze::ConvertPath and blaze::ConvertPathList of the POSIX build
ConvertPath(path) == path

ConvertPathList(path_list) == path_list

\* lines 397-402
ClientArgs(terminal) ==
  << "--rc_source=client",
     "--default_override=0:common=--isatty=" \o BoolToString(terminal.isatty),
     "--default_override=0:common=--terminal_columns=" \o IntToString(terminal.columns) >>

\* the rc file names pushed from the last to the first
RcSourceArgsReversed(blazercs) ==
  [i_blazerc \in 1..Len(blazercs) |->
     "--rc_source=" \o ConvertPath(blazercs[Len(blazercs) + 1 - i_blazerc].filename)]

\* lines 405-409
RcSourceArgs(blazercs) ==
  [i_blazerc \in 1..Len(blazercs) |->
     "--rc_source=" \o ConvertPath(blazercs[i_blazerc].filename)]

\* the commands an rc file may name, in the order std::map keeps its keys
CommandOrder == <<"build", "startup", "test">>

\* lines 412-413: the keys of the map, in its iteration order
MapKeys(rcoptions) == SelectSeq(CommandOrder, LAMBDA c : c \in DOMAIN rcoptions)

\* the source tag without the + 1
DefaultOverrideZeroBased(command, rcoption) ==
  "--default_override=" \o IntToString(rcoption.rcfile_index) \o ":"
    \o command \o "=" \o rcoption.option

\* lines 421-423
DefaultOverride(command, rcoption) ==
  "--default_override=" \o IntToString(rcoption.rcfile_index + 1) \o ":"
    \o command \o "=" \o rcoption.option

\* lines 419-424
CommandOverrides(command, options) ==
  [ii \in 1..Len(options) |-> DefaultOverride(command, options[ii])]

\* lines 412-425, over the keys from position k on
RECURSIVE DefaultOverrideArgs(_, _, _)
DefaultOverrideArgs(rcoptions, keys, k) ==
  IF k > Len(keys) THEN <<>>
  ELSE (IF keys[k] = "startup" THEN <<>>
        ELSE CommandOverrides(keys[k], rcoptions[keys[k]]))
       \o DefaultOverrideArgs(rcoptions, keys, k + 1)

\* std::string::find of a single character, 0 when it is not there
RECURSIVE FindChar(_, _, _)
FindChar(s, c, from) ==
  IF from > Len(s) THEN 0
  ELSE IF SubSeq(s, from, from) = c THEN from
  ELSE FindChar(s, c, from + 1)

\* lines 432-444
ClientEnvArg(env_str) ==
  LET pos == FindChar(env_str, "=", 1)
      name == SubSeq(env_str, 1, pos - 1)
      value == SubSeq(env_str, pos + 1, Len(env_str))
  IN "--client_env=" \o
       (IF pos # 0 /\ name = "PATH" THEN "PATH=" \o ConvertPathList(value)
        ELSE IF pos # 0 /\ name = "TMP" THEN "TMP=" \o ConvertPath(value)
        ELSE env_str)

\* lines 428-446
ClientEnvArgs(batch, env) ==
  IF batch THEN <<"--ignore_client_env">>
  ELSE [e \in 1..Len(env) |-> ClientEnvArg(env[e])]

\* lines 447-451
CwdArgs(cwd, emacs) ==
  <<"--client_cwd=" \o ConvertPath(cwd)>> \o (IF emacs THEN <<"--emacs">> ELSE <<>>)

\* the option defaults pushed before the rc file names
AssembledArgsOverridesFirst(batch, cwd, terminal, env, blazercs, rcoptions) ==
  ClientArgs(terminal)
    \o DefaultOverrideArgs(rcoptions, MapKeys(rcoptions), 1)
    \o RcSourceArgs(blazercs)
    \o ClientEnvArgs(batch, env)
    \o CwdArgs(cwd, terminal.emacs)

\* everything AddRcfileArgsAndOptions pushes, in the order it pushes it
AssembledArgs(batch, cwd, terminal, env, blazercs, rcoptions) ==
  ClientArgs(terminal)
    \o RcSourceArgs(blazercs)
    \o DefaultOverrideArgs(rcoptions, MapKeys(rcoptions), 1)
    \o ClientEnvArgs(batch, env)
    \o CwdArgs(cwd, terminal.emacs)

\* line 299
AddRcfileArgsAndOptions ==
  /\ pc = "assemble"
  /\ command_arguments_' =
       command_arguments_ \o AssembledArgs(client.batch, Cwd, client.terminal,
                                           client.env, blazercs_, rcoptions_)
  /\ assembled' = command_arguments_'
  /\ pc' = "append"
  /\ UNCHANGED <<inputVars, scanVars, candidateVars, rcVars, startupVars, command_,
                 resultVars>>

\* the command itself taken for its first argument
CommandArgsWithCommand(a, startup_args) == SubSeq(a, startup_args + 2, Len(a))

\* lines 300-303: the raw arguments from C++ index startup_args_ + 2 on
CommandArgs(a, startup_args) == SubSeq(a, startup_args + 3, Len(a))

\* lines 300-304
AppendCommandArgs ==
  /\ pc = "append"
  /\ command_arguments_' = command_arguments_ \o CommandArgs(args, startup_args_)
  /\ Return("SUCCESS", error)
  /\ UNCHANGED <<inputVars, scanVars, candidateVars, rcVars, startupVars, command_,
                 assembled>>

(***************************************************************************)
(* The run.                                                                *)
(***************************************************************************)
Next ==
  \/ ScanArgs
  \/ ValidateStartupOptions
  \/ FindCandidateBlazercPaths
  \/ FindUserBlazercCall
  \/ RcLoopSkip
  \/ RcLoopParse
  \/ RcLoopNext
  \/ RcLoopFail
  \/ RcLoopEnd
  \/ ParseSkipLine
  \/ ParseInvalidImport
  \/ ParseImportLoop
  \/ ParseImport
  \/ ParseOptionsLine
  \/ ParseReturn
  \/ ParseReturnError
  \/ PhaseAPair
  \/ PhaseALast
  \/ PhaseAEnd
  \/ PhaseBPair
  \/ PhaseBLast
  \/ PhaseBEnd
  \/ NoCommand
  \/ DetermineCommand
  \/ AddRcfileArgsAndOptions
  \/ AppendCommandArgs

Spec == Init /\ [][Next]_vars

\* ParseOptions is one thread of control that runs on until it returns; the
\* runs are those with startup options in the rc files and on the command
\* line
FairSpec == InitStartup /\ [][Next]_vars /\ WF_vars(Next)

(***************************************************************************)
(* What the claims speak of.                                               *)
(***************************************************************************)
\* the files of the Parse calls in progress, the top-level file first
ActiveChain == [i \in 1..Len(frames) |-> frames[i].filename]

\* the report of an import loop over the first n files of a chain
RECURSIVE ChainReport(_, _)
ChainReport(chain, n) ==
  IF n = 0 THEN "Import loop detected:\n"
  ELSE ChainReport(chain, n - 1) \o "  " \o chain[n] \o "\n"

\* the innermost Parse call is at a well-formed import line
AtValidImport ==
  /\ AtLine
  /\ IsImport(CurrentWords)
  /\ ~InvalidImport(CurrentWords, client.relativizes)

\* ... that names a file of a Parse call in progress
ImportsActiveFile ==
  /\ AtValidImport
  /\ \E i \in 1..Len(frames) : frames[i].filename = ImportTarget(CurrentWords)

\* ... that names a file of no Parse call in progress
ImportsInactiveFile ==
  /\ AtValidImport
  /\ \A i \in 1..Len(frames) : frames[i].filename # ImportTarget(CurrentWords)

\* C1: an import of a file that is on the active import chain makes Parse
\* return BAD_ARGV with a report that lists the chain from the top-level
\* file down to the importing file, one line per file, and ParseOptions
\* returns that exit code and report.
C1_ImportLoopIsBadArgv ==
  [][ /\ ImportsActiveFile =>
           /\ parse_exit_code' = "BAD_ARGV"
           /\ error' = ChainReport(ActiveChain, Len(ActiveChain))
      /\ (pc = "parse" /\ parse_exit_code # "SUCCESS") =>
           /\ parse_exit_code' = parse_exit_code
           /\ error' = error
           /\ pc' \in {"parse", "done"}
           /\ pc' = "done" => exit_code' = parse_exit_code
    ]_vars

\* a loop over three files was reported by ParseOptions
C1_Witness ==
  /\ pc = "done"
  /\ returned_from = "parse"
  /\ exit_code = "BAD_ARGV"
  /\ Len(import_stack) = 3
  /\ error = ChainReport(import_stack, 3)

\* C2: an import of a file that is not on the active import chain is
\* followed, however often the file was imported before; an import loop is
\* reported only for a file that is on the active import chain.
C2_SharedImportIsNoLoop ==
  [][ /\ ImportsInactiveFile =>
           /\ blazercs_' = Append(blazercs_, RcFile(ImportTarget(CurrentWords),
                                                    Len(blazercs_)))
           /\ parse_exit_code' \in {"SUCCESS", "INTERNAL_ERROR"}
      /\ (/\ pc = "parse"
          /\ parse_exit_code = "SUCCESS"
          /\ parse_exit_code' # "SUCCESS"
          /\ starts_with(error', "Import loop detected")) => ImportsActiveFile
    ]_vars

\* a file with the same import on its first two lines was parsed, and so was
\* everything else
C2_Witness ==
  /\ pc = "done"
  /\ exit_code = "SUCCESS"
  /\ \E f \in DOMAIN fs :
       /\ Len(fs[f]) >= 2
       /\ IsImport(fs[f][1])
       /\ fs[f][2] = fs[f][1]

\* the paths ParseOptions is to parse: the first occurrence of each
\* non-empty path, in list order
RECURSIVE FirstOccurrences(_, _)
FirstOccurrences(paths, seen) ==
  IF paths = <<>> THEN <<>>
  ELSE IF Head(paths) = "" \/ Head(paths) \in seen
       THEN FirstOccurrences(Tail(paths), seen)
       ELSE <<Head(paths)>> \o FirstOccurrences(Tail(paths), seen \cup {Head(paths)})

\* the depth-first walk of a file from a line on: <<file, command, token>>
\* per option, an imported file in the place of its import line
RECURSIVE WalkLines(_, _, _)
WalkLines(file, line, fuel) ==
  IF fuel = 0 \/ file \notin DOMAIN fs THEN <<>>
  ELSE IF line > Len(fs[file]) THEN <<>>
  ELSE LET words == fs[file][line]
       IN (IF words = <<>> THEN <<>>
           ELSE IF words[1] = "import"
                THEN (IF Len(words) = 2
                      THEN WalkLines(ImportTarget(words), 1, fuel - 1)
                      ELSE <<>>)
                ELSE [w \in 1..(Len(words) - 1) |-> <<file, words[1], words[w + 1]>>])
          \o WalkLines(file, line + 1, fuel)

RECURSIVE WalkFiles(_, _)
WalkFiles(files, fuel) ==
  IF files = <<>> THEN <<>>
  ELSE WalkLines(Head(files), 1, fuel) \o WalkFiles(Tail(files), fuel)

\* the walk of the top-level files, in the order they were passed
DepthFirstWalk ==
  WalkFiles(FirstOccurrences(candidate_blazerc_paths, {}), Len(blazercs_) + 1)

\* the options stored under a command, each with the file that gave it
StoredEntries(command) ==
  IF command \in DOMAIN rcoptions_
  THEN [i \in 1..Len(rcoptions_[command]) |->
          <<blazercs_[rcoptions_[command][i].rcfile_index + 1].filename, command,
            rcoptions_[command][i].option>>]
  ELSE <<>>

CommandWords == {CommandOrder[k] : k \in 1..Len(CommandOrder)}

\* C3: once the top-level rc files are parsed, the options stored under a
\* command are the options of that command in the depth-first walk of the
\* files, in the walk's order.
C3_DepthFirstOrder ==
  pc = "phaseA" =>
    /\ DOMAIN rcoptions_ \subseteq CommandWords
    /\ \A command \in CommandWords :
         StoredEntries(command)
           = SelectSeq(DepthFirstWalk, LAMBDA entry : entry[2] = command)

\* an option of an imported file is stored before an option of a later line
\* of its importer
C3_Witness ==
  /\ pc = "phaseA"
  /\ "build" \in DOMAIN rcoptions_
  /\ \E i, j \in 1..Len(rcoptions_["build"]) :
       /\ i < j
       /\ rcoptions_["build"][i].rcfile_index > rcoptions_["build"][j].rcfile_index

\* C4: in ParseStartupOptions every ProcessArg call for an rc startup option
\* comes before every call for a command-line argument, and the calls for rc
\* startup options are made in the stored order of the options.
C4_RcBeforeCommandLine ==
  /\ \A i, j \in 1..Len(calls) :
       (i < j /\ calls[i].phase = "B") => calls[j].phase = "B"
  /\ \A i \in 1..Len(calls) :
       calls[i].phase = "A" =>
         /\ "startup" \in DOMAIN rcoptions_
         /\ calls[i].index + 1 \in 1..Len(rcoptions_["startup"])
         /\ calls[i].arg = rcoptions_["startup"][calls[i].index + 1].option
  /\ \A i, j \in 1..Len(calls) :
       (i < j /\ calls[i].phase = "A" /\ calls[j].phase = "A") =>
         calls[i].index < calls[j].index

\* the validator saw an option of an rc file and later the same option of
\* the command line
C4_Witness ==
  /\ pc = "done"
  /\ exit_code = "SUCCESS"
  /\ \E i, j \in 1..Len(calls) :
       /\ i < j
       /\ calls[i].phase = "A"
       /\ calls[j].phase = "B"
       /\ calls[i].arg = calls[j].arg

\* the raw argument at k was taken as the space-separated value of the
\* startup option before it
ConsumedAsValue(k) ==
  \E c \in 1..Len(calls) :
    /\ calls[c].phase = "B"
    /\ calls[c].answer.code = "SUCCESS"
    /\ calls[c].answer.is_space_separated
    /\ calls[c].index + 2 = k

\* the raw arguments that are not option-shaped and were not taken as a value
CommandCandidates ==
  {k \in 2..Len(args) : ~IsArg(args[k]) /\ ~ConsumedAsValue(k)}

FirstCandidate == CHOOSE k \in CommandCandidates : \A m \in CommandCandidates : k <= m

Succeeded == pc = "done" /\ exit_code = "SUCCESS"

\* C5 as stated: Command is the first raw argument that is not option-shaped
\* and was not taken as a value, and Command is empty exactly when there is
\* no such argument.
C5_CommandEmptyIffNoToken ==
  Succeeded =>
    /\ CommandCandidates # {} => command_ = args[FirstCandidate]
    /\ command_ = "" <=> CommandCandidates = {}

\* C5, amended: Command is the first raw argument that is not option-shaped
\* and was not taken as a value, and Command is empty exactly when there is
\* no such argument or that argument is itself the empty string.
C5_CommandIsFirstToken ==
  Succeeded =>
    /\ CommandCandidates # {} => command_ = args[FirstCandidate]
    /\ command_ = "" <=> (CommandCandidates = {} \/ args[FirstCandidate] = "")

\* the command follows a startup option and the value that option consumed
C5_Witness ==
  /\ Succeeded
  /\ command_ # ""
  /\ \E k \in 2..Len(args) : ConsumedAsValue(k) /\ k < FirstCandidate

\* C6: without a command token ParseOptions returns SUCCESS with an empty
\* Command, never runs AddRcfileArgsAndOptions and leaves CommandArguments
\* empty; with a command token CommandArguments is what the assembler
\* emitted followed by the raw arguments after the command token.
C6_NoCommandNoMerge ==
  pc = "done" =>
    /\ returned_from \in {"command", "append"} => exit_code = "SUCCESS"
    /\ (exit_code = "SUCCESS" /\ CommandCandidates = {}) =>
         /\ returned_from = "command"
         /\ command_ = ""
         /\ command_arguments_ = <<>>
         /\ assembled = <<>>
    /\ (exit_code = "SUCCESS" /\ CommandCandidates # {}) =>
         /\ returned_from = "append"
         /\ assembled # <<>>
         /\ command_arguments_
              = assembled \o SubSeq(args, FirstCandidate + 1, Len(args))

\* the rc files gave options of a command, and no command was given
C6_Witness ==
  /\ Succeeded
  /\ CommandCandidates = {}
  /\ "build" \in DOMAIN rcoptions_
  /\ command_arguments_ = <<>>

\* the group of an argument the assembler emits after its first three
ArgGroup(s) ==
  IF starts_with(s, "--rc_source=") THEN 2
  ELSE IF starts_with(s, "--default_override=") THEN 3
  ELSE IF s = "--ignore_client_env" \/ starts_with(s, "--client_env=") THEN 4
  ELSE IF starts_with(s, "--client_cwd=") THEN 5
  ELSE IF s = "--emacs" THEN 6
  ELSE 0

\* C7: what AddRcfileArgsAndOptions appends is --rc_source=client, the
\* isatty and the terminal_columns override of source 0, then the
\* --rc_source entries, then the --default_override entries of a source
\* >= 1, then --ignore_client_env or the --client_env entries, then one
\* --client_cwd, then at most one --emacs.
C7_FixedGroupOrder ==
  assembled # <<>> =>
    /\ Len(assembled) >= 4
    /\ assembled[1] = "--rc_source=client"
    /\ starts_with(assembled[2], "--default_override=0:common=--isatty=")
    /\ starts_with(assembled[3], "--default_override=0:common=--terminal_columns=")
    /\ \A k \in 4..Len(assembled) :
         /\ ArgGroup(assembled[k]) \in 2..6
         /\ ~starts_with(assembled[k], "--default_override=0:")
         /\ \A j \in 4..k : ArgGroup(assembled[j]) <= ArgGroup(assembled[k])
    /\ Cardinality({k \in 4..Len(assembled) : ArgGroup(assembled[k]) = 5}) = 1
    /\ Cardinality({k \in 4..Len(assembled) : ArgGroup(assembled[k]) = 6}) <= 1
    /\ (\E k \in 4..Len(assembled) : assembled[k] = "--ignore_client_env") =>
         Cardinality({k \in 4..Len(assembled) : ArgGroup(assembled[k]) = 4}) = 1

\* every group has an entry
C7_Witness ==
  /\ assembled # <<>>
  /\ \A g \in 2..6 : \E k \in 4..Len(assembled) : ArgGroup(assembled[k]) = g
  /\ \E k \in 4..Len(assembled) : starts_with(assembled[k], "--client_env=PATH=")

\* the --default_override entries of a source >= 1
Overrides ==
  SelectSeq(assembled,
            LAMBDA s : /\ starts_with(s, "--default_override=")
                       /\ ~starts_with(s, "--default_override=0:"))

\* the entry is an override of this command, of whatever rc file
IsOverrideOf(s, command) ==
  \E n \in 1..Len(blazercs_) :
    starts_with(s, "--default_override=" \o IntToString(n) \o ":" \o command \o "=")

OverridesOf(command) == SelectSeq(Overrides, LAMBDA s : IsOverrideOf(s, command))

StoredOptions(command) ==
  IF command \in DOMAIN rcoptions_ THEN rcoptions_[command] ELSE <<>>

\* C8: the --default_override entries of a source >= 1 are, command by
\* command, the options stored under the commands other than startup: the
\* i-th entry of a command is --default_override=<index+1>:<command>=<option>
\* of the i-th option stored under it, and no entry is of startup.
C8_OverridePerOption ==
  assembled # <<>> =>
    /\ \A command \in CommandWords \ {"startup"} :
         OverridesOf(command)
           = [i \in 1..Len(StoredOptions(command)) |->
                "--default_override="
                  \o IntToString(StoredOptions(command)[i].rcfile_index + 1)
                  \o ":" \o command \o "=" \o StoredOptions(command)[i].option]
    /\ \A k \in 1..Len(Overrides) :
         \E command \in CommandWords \ {"startup"} : IsOverrideOf(Overrides[k], command)

\* one rc file with a startup option and a build option, and one override
\* of the build option
C8_Witness ==
  /\ Succeeded
  /\ Len(blazercs_) = 1
  /\ DOMAIN rcoptions_ = {"startup", "build"}
  /\ Cardinality({k \in 1..Len(command_arguments_) :
                    command_arguments_[k] = "--default_override=1:build=-o"}) = 1

\* the --rc_source entries
RcSources == SelectSeq(assembled, LAMBDA s : starts_with(s, "--rc_source="))

\* C9: the --rc_source entries are --rc_source=client and then one entry per
\* RcFile in index order, and the n-th of them (client being number 0) is
\* there for every --default_override=<n>:... and names the rc file whose
\* line gave the option.
C9_SourceTagsNameFiles ==
  assembled # <<>> =>
    /\ Len(RcSources) = Len(blazercs_) + 1
    /\ RcSources[1] = "--rc_source=client"
    /\ \A i \in 1..Len(blazercs_) :
         /\ blazercs_[i].index = i - 1
         /\ RcSources[i + 1] = "--rc_source=" \o blazercs_[i].filename
    /\ \A command \in CommandWords \ {"startup"} :
         LET walk == SelectSeq(DepthFirstWalk, LAMBDA entry : entry[2] = command)
             entries == OverridesOf(command)
         IN /\ Len(entries) = Len(walk)
            /\ \A i \in 1..Len(walk) :
                 \E n \in 1..(Len(RcSources) - 1) :
                   /\ entries[i] = "--default_override=" \o IntToString(n) \o ":"
                                     \o command \o "=" \o walk[i][3]
                   /\ RcSources[n + 1] = "--rc_source=" \o walk[i][1]

\* an option of the second rc file was emitted
C9_Witness ==
  /\ Succeeded
  /\ Len(blazercs_) >= 2
  /\ \E k \in 1..Len(assembled) : starts_with(assembled[k], "--default_override=2:")

NoMasterFlags == {"--nomaster_bazelrc", "--nomaster_blazerc"}

HasNoMasterFlag == \E k \in 2..Len(args) : args[k] \in NoMasterFlags

\* ValidateStartupOptions has returned SUCCESS and line 257 is passed
PastFinder ==
  \/ pc \notin {"scan", "validate", "find", "done"}
  \/ pc = "done" /\ returned_from # "validate"

\* line 266 is passed
PastUserRc ==
  \/ pc \notin {"scan", "validate", "find", "user", "done"}
  \/ pc = "done" /\ returned_from \notin {"validate", "user"}

\* what FindUserBlazerc may give
UserRcPaths ==
  IF blazerc # NULL THEN {MakeAbsolute(blazerc[1])} ELSE {WsRc, HomeRc, ""}

\* C10: with --nomaster_bazelrc or --nomaster_blazerc among the raw
\* arguments from index 1 on, the candidate path finder is never invoked
\* and the user rc path is the only candidate; without them, once the
\* startup options are validated, the finder is invoked exactly once and
\* its paths come before the user rc path.
C10_NoMasterSkipsFinder ==
  /\ HasNoMasterFlag =>
       /\ finder_log = <<>>
       /\ Len(candidate_blazerc_paths) <= 1
       /\ PastUserRc =>
            /\ Len(candidate_blazerc_paths) = 1
            /\ candidate_blazerc_paths[1] \in UserRcPaths
  /\ ~HasNoMasterFlag =>
       /\ Len(finder_log) = (IF PastFinder THEN 1 ELSE 0)
       /\ PastUserRc =>
            /\ Len(candidate_blazerc_paths) = Len(finder_log[1]) + 1
            /\ SubSeq(candidate_blazerc_paths, 1, Len(finder_log[1])) = finder_log[1]
            /\ candidate_blazerc_paths[Len(candidate_blazerc_paths)] \in UserRcPaths

\* the flag comes after the command, and the user rc file alone was parsed
C10_Witness ==
  /\ Succeeded
  /\ Len(args) >= 3
  /\ ~IsArg(args[2])
  /\ args[3] \in NoMasterFlags
  /\ finder_log = <<>>
  /\ Len(blazercs_) = 1

\* C11: a startup option that ProcessArg rejects, of an rc file or of the
\* command line, is the last one ProcessArg is called for; ParseOptions
\* returns from ParseStartupOptions with the exit code ProcessArg gave,
\* Command is not assigned and CommandArguments stays empty.
C11_RejectionAborts ==
  \A k \in 1..Len(calls) :
    calls[k].answer.code # "SUCCESS" =>
      /\ k = Len(calls)
      /\ pc = "done"
      /\ returned_from = (IF calls[k].phase = "A" THEN "phaseA" ELSE "phaseB")
      /\ exit_code = calls[k].answer.code
      /\ command_ = ""
      /\ command_arguments_ = <<>>
      /\ assembled = <<>>

\* an option of an rc file was rejected with the less common exit code, after
\* another was accepted and before the command line's option was looked at
C11_Witness ==
  /\ pc = "done"
  /\ exit_code = "LOCAL_ENVIRONMENTAL_ERROR"
  /\ Len(calls) >= 2
  /\ calls[Len(calls)].phase = "A"
  /\ calls[Len(calls)].answer.code = "LOCAL_ENVIRONMENTAL_ERROR"
  /\ Len(args) >= 2
  /\ IsArg(args[2])

\* a Parse call made for an import line hands control back to its importer
\* in this step: it returns, or it could not read its file
ImportedParseReturns ==
  /\ pc = "parse"
  /\ frames' # <<>>
  /\ \/ Len(frames') < Len(frames)
     \/ Len(frames') = Len(frames) /\ Len(import_stack') > Len(import_stack)

\* C12: whenever the Parse call made for an import line returns, with
\* SUCCESS or with an error, the import stack holds what it held before the
\* import line was processed: the files of the calls still in progress.
C12_PopOnEveryExit ==
  [][ImportedParseReturns => import_stack' = ActiveChain']_vars

\* C16: while a top-level rc file is parsed the import stack holds no file
\* twice, starts with the top-level file, ends with the file of the
\* innermost Parse call, and is as long as the chain of calls in progress.
C16_StackIsActiveChain ==
  (pc = "parse" /\ frames # <<>>) =>
    /\ \A i, j \in 1..Len(import_stack) :
         import_stack[i] = import_stack[j] => i = j
    /\ import_stack # <<>>
    /\ import_stack[1] = frames[1].filename
    /\ import_stack[Len(import_stack)] = TopFrame.filename
    /\ Len(import_stack) = Len(frames)

\* the k-th stored startup option was taken as the space-separated value of
\* the one before it
ConsumedInPhaseA(k) ==
  \E c \in 1..Len(calls) :
    /\ calls[c].phase = "A"
    /\ calls[c].answer.code = "SUCCESS"
    /\ calls[c].answer.is_space_separated
    /\ calls[c].index + 2 = k

\* the k-th stored startup option was passed to the validator as the flag
OfferedInPhaseA(k) ==
  \E c \in 1..Len(calls) : calls[c].phase = "A" /\ calls[c].index + 1 = k

\* lines 332-361 are passed without a rejection
PhaseADone ==
  \/ pc \in {"phaseB", "command", "assemble", "append"}
  \/ pc = "done" /\ returned_from \in {"phaseB", "command", "append"}

\* C13: the last stored startup option, when it was not taken as the value
\* of the one before it, is passed to the validator, alone and with an empty
\* next token, exactly when it is option-shaped; otherwise it is dropped
\* without a call and without an error; a last option taken as a value is
\* never passed as the flag.
C13_DanglingLastToken ==
  /\ (PhaseADone /\ HasStartup) =>
       LET n == Len(StartupOptions)
       IN /\ ConsumedInPhaseA(n) => ~OfferedInPhaseA(n)
          /\ ~ConsumedInPhaseA(n) =>
               (OfferedInPhaseA(n) <=> IsArg(StartupOptions[n].option))
          /\ \A c \in 1..Len(calls) :
               (calls[c].phase = "A" /\ calls[c].index + 1 = n) =>
                 /\ calls[c].arg = StartupOptions[n].option
                 /\ calls[c].next_arg = ""
  /\ (pc = "done" /\ returned_from = "phaseA") =>
       /\ calls # <<>>
       /\ calls[Len(calls)].answer.code # "SUCCESS"
       /\ exit_code = calls[Len(calls)].answer.code

\* a last option that is not option-shaped and not a value was dropped, and
\* the run went on to its end
C13_Witness ==
  /\ Succeeded
  /\ HasStartup
  /\ Len(StartupOptions) >= 2
  /\ ~IsArg(StartupOptions[Len(StartupOptions)].option)
  /\ ~ConsumedInPhaseA(Len(StartupOptions))
  /\ ~OfferedInPhaseA(Len(StartupOptions))
  /\ OfferedInPhaseA(Len(StartupOptions) - 1)

\* lines 365-388 are passed without a rejection
PhaseBDone ==
  \/ pc \in {"command", "assemble", "append"}
  \/ pc = "done" /\ returned_from \in {"command", "append"}

\* the raw argument at k was passed to the validator as the flag
OfferedInPhaseB(k) ==
  \E c \in 1..Len(calls) : calls[c].phase = "B" /\ calls[c].index + 1 = k

\* the raw arguments Phase B goes through: those before the command token
BeforeCommand(k) == \A m \in CommandCandidates : k < m

\* the token after the i-th (from 0) of a sequence of tokens, "" after the last
TokenAfter(tokens, i) == IF i + 2 <= Len(tokens) THEN tokens[i + 2] ELSE ""

\* C14: in both phases the calls of ProcessArg go through the tokens as the
\* validator reports: the next call is for the token one further, or two
\* further when the validator took the next token as a space-separated
\* value, so that no token is the flag twice and no value is ever the flag;
\* every call passes the token and its immediate successor; and every token
\* but the last that was not taken as a value is passed as the flag, in
\* Phase A whatever it looks like and whatever rc file it is of, in Phase B
\* up to the command token.
C14_PairConsumption ==
  /\ \A c \in 1..Len(calls) :
       /\ calls[c].phase = "A" =>
            /\ HasStartup
            /\ calls[c].index + 1 <= Len(StartupOptions)
            /\ calls[c].arg = StartupOptions[calls[c].index + 1].option
            /\ calls[c].next_arg
                 = TokenAfter([k \in 1..Len(StartupOptions) |-> StartupOptions[k].option],
                              calls[c].index)
       /\ calls[c].phase = "B" =>
            /\ calls[c].index + 1 <= Len(args)
            /\ calls[c].arg = args[calls[c].index + 1]
            /\ calls[c].next_arg = TokenAfter(args, calls[c].index)
       /\ (c = 1 \/ calls[c].phase # calls[IF c = 1 THEN 1 ELSE c - 1].phase) =>
            calls[c].index = (IF calls[c].phase = "A" THEN 0 ELSE 1)
       /\ (c < Len(calls) /\ calls[c].phase = calls[IF c < Len(calls) THEN c + 1 ELSE c].phase) =>
            calls[c + 1].index
              = calls[c].index + (IF calls[c].answer.is_space_separated THEN 2 ELSE 1)
  /\ (PhaseADone /\ HasStartup) =>
       \A k \in 1..(Len(StartupOptions) - 1) :
         ~ConsumedInPhaseA(k) => OfferedInPhaseA(k)
  /\ PhaseBDone =>
       \A k \in 2..(Len(args) - 1) :
         (BeforeCommand(k) /\ ~ConsumedAsValue(k)) => OfferedInPhaseB(k)

\* a token that is not option-shaped was the flag, with a token of another
\* rc file as its candidate value
C14_Witness ==
  /\ PhaseBDone
  /\ \E c \in 1..Len(calls) :
       /\ calls[c].phase = "A"
       /\ ~IsArg(calls[c].arg)
       /\ calls[c].next_arg # ""
       /\ StartupOptions[calls[c].index + 1].rcfile_index
            # StartupOptions[calls[c].index + 2].rcfile_index

\* on the command line a value was skipped and the option after it was the
\* next flag
C14_WitnessCommandLine ==
  /\ PhaseBDone
  /\ \E c \in 1..(Len(calls) - 1) :
       /\ calls[c].phase = "B"
       /\ calls[c].answer.is_space_separated
       /\ calls[c + 1].phase = "B"
       /\ calls[c + 1].index = calls[c].index + 2

\* C15: once a Parse call has an error, every Parse call in progress returns
\* it in turn and nothing else happens: no option is stored, no file is read
\* or added, ProcessArg is not called, nothing is assembled, and when the
\* top-level call has returned, ParseOptions returns that exit code and
\* error.
C15_ImportErrorShortCircuits ==
  [][(pc = "parse" /\ parse_exit_code # "SUCCESS") =>
       /\ parse_exit_code' = parse_exit_code
       /\ error' = error
       /\ rcoptions_' = rcoptions_
       /\ blazercs_' = blazercs_
       /\ fs' = fs
       /\ candidate_i' = candidate_i
       /\ calls' = <<>>
       /\ command_' = ""
       /\ command_arguments_' = <<>>
       /\ assembled' = <<>>
       /\ IF frames # <<>>
          THEN /\ frames' = SubSeq(frames, 1, Len(frames) - 1)
               /\ pc' = "parse"
          ELSE /\ pc' = "done"
               /\ exit_code' = parse_exit_code]_vars

\* an imported file had an error; the importer's next line, an option, was
\* not stored, and the next top-level rc file was not parsed
C15_Witness ==
  /\ pc = "done"
  /\ returned_from = "parse"
  /\ exit_code = "BAD_ARGV"
  /\ Len(blazercs_) = 2
  /\ candidate_i = 1
  /\ Len(candidate_blazerc_paths) >= 2
  /\ IsNewCandidate(candidate_blazerc_paths[2], blazerc_paths)
  /\ rcoptions_ = <<>>
  /\ LET importer == fs[blazercs_[1].filename]
     IN /\ Len(importer) = 2
        /\ importer[1] = <<"import", blazercs_[2].filename>>
        /\ importer[2] = <<"build", "-o", "v">>

\* the options of seq from position n + 1 on
OptionsAfter(seq, n) == SubSeq(seq, n + 1, Len(seq))

\* C17: the RcFile at position i (from 0) of the list has index i, the list
\* only grows at its end, and every stored option has the index of an RcFile
\* of the list: the one of the Parse call whose line gave the option, which
\* is the RcFile of the file that line is in.
C17_DenseStableIndices ==
  /\ [](/\ \A i \in 1..Len(blazercs_) : blazercs_[i].index = i - 1
        /\ \A command \in DOMAIN rcoptions_ :
             \A k \in 1..Len(rcoptions_[command]) :
               rcoptions_[command][k].rcfile_index \in 0..(Len(blazercs_) - 1))
  /\ [][/\ Len(blazercs_') >= Len(blazercs_)
        /\ SubSeq(blazercs_', 1, Len(blazercs_)) = blazercs_
        /\ \A command \in DOMAIN rcoptions_ :
             /\ command \in DOMAIN rcoptions_'
             /\ Len(rcoptions_'[command]) >= Len(rcoptions_[command])
             /\ SubSeq(rcoptions_'[command], 1, Len(rcoptions_[command]))
                  = rcoptions_[command]
        /\ \A command \in DOMAIN rcoptions_' :
             LET old == IF command \in DOMAIN rcoptions_
                        THEN Len(rcoptions_[command]) ELSE 0
                 new == OptionsAfter(rcoptions_'[command], old)
             IN \A k \in 1..Len(new) :
                  /\ frames # <<>>
                  /\ new[k].rcfile_index = TopFrame.index
                  /\ blazercs_[new[k].rcfile_index + 1].filename = TopFrame.filename
                  /\ \E w \in 2..Len(CurrentWords) : CurrentWords[w] = new[k].option]_vars

\* an option of an imported file, index 1, is stored before an option of a
\* later line of its importer, index 0, and a third RcFile has index 2
C17_Witness ==
  /\ Len(blazercs_) = 3
  /\ blazercs_[3].index = 2
  /\ "build" \in DOMAIN rcoptions_
  /\ \E i, j \in 1..Len(rcoptions_["build"]) :
       /\ i < j
       /\ rcoptions_["build"][i].rcfile_index = 1
       /\ rcoptions_["build"][j].rcfile_index = 0

\* the paths to parse as top-level rc files
TopLevelPaths == FirstOccurrences(candidate_blazerc_paths, {})

\* the candidates from position i on hold nothing left to parse
NothingNewFrom(i) ==
  \A k \in i..Len(candidate_blazerc_paths) :
    \/ candidate_blazerc_paths[k] = ""
    \/ \E j \in 1..(k - 1) : candidate_blazerc_paths[j] = candidate_blazerc_paths[k]

\* C18: the files ParseOptions parses as top-level rc files are the first
\* occurrences of the non-empty paths of the candidate list (the finder's
\* paths, then the user rc path), one after the other in list order: the
\* n-th top-level parse is of the n-th such path, an empty path and a path
\* seen before are passed over, and the loop ends when none is left.
C18_TopLevelDedupe ==
  [][/\ (pc = "rcloop" /\ pc' = "parse") =>
          /\ Cardinality(blazerc_paths) < Len(TopLevelPaths)
          /\ blazercs_' = Append(blazercs_,
                                 [filename |-> TopLevelPaths[Cardinality(blazerc_paths) + 1],
                                  index |-> Len(blazercs_)])
          /\ import_stack' = <<TopLevelPaths[Cardinality(blazerc_paths) + 1]>>
          /\ blazerc_paths'
               = {TopLevelPaths[k] : k \in 1..(Cardinality(blazerc_paths) + 1)}
          /\ ~NothingNewFrom(candidate_i)
     /\ (pc = "rcloop" /\ pc' = "rcloop") =>
          /\ blazercs_' = blazercs_
          /\ blazerc_paths' = blazerc_paths
     /\ (pc = "rcloop" /\ pc' \notin {"rcloop", "parse"}) =>
          /\ blazerc_paths = {TopLevelPaths[k] : k \in 1..Len(TopLevelPaths)}
          /\ Cardinality(blazerc_paths) = Len(TopLevelPaths)
          /\ blazercs_' = blazercs_]_vars

\* the user rc path was a path of the finder again and was not parsed twice,
\* and an empty path was not parsed at all
C18_Witness ==
  /\ Succeeded
  /\ Len(candidate_blazerc_paths) = 3
  /\ candidate_blazerc_paths[2] = candidate_blazerc_paths[3]
  /\ Len(blazercs_) = 2
  /\ blazercs_[1].filename = candidate_blazerc_paths[1]
  /\ blazercs_[2].filename = candidate_blazerc_paths[2]

\* no user rc file was found, and the empty path was passed over
C18_WitnessNoUserRc ==
  /\ Succeeded
  /\ candidate_blazerc_paths = <<MasterRc, "">>
  /\ Len(blazercs_) = 1

\* C20: every command that is a key of the stored options has at least one
\* option, `import` is never a key, and so in Phase A the startup sequence is
\* not empty and the loop of line 336 and the test of line 350 read no
\* element outside it.
C20_NoEmptySequence ==
  /\ \A command \in DOMAIN rcoptions_ : rcoptions_[command] # <<>>
  /\ "import" \notin DOMAIN rcoptions_
  /\ (pc = "phaseA" /\ HasStartup) =>
       /\ Len(StartupOptions) >= 1
       /\ startup_i <= Len(StartupOptions)
       /\ InPhaseALoop(startup_i, Len(StartupOptions)) =>
            startup_i + 2 <= Len(StartupOptions)
  /\ \A c \in 1..Len(calls) :
       calls[c].phase = "A" => calls[c].index + 1 <= Len(StartupOptions)

\* the rc files were parsed, a line was a bare `startup`, and there is no
\* startup sequence
C20_Witness ==
  /\ pc = "phaseA"
  /\ ~HasStartup
  /\ \E f \in DOMAIN fs : \E l \in 1..Len(fs[f]) : fs[f][l] = <<"startup">>
  /\ \E f \in DOMAIN fs : \E l \in 1..Len(fs[f]) : IsImport(fs[f][l])

ExitCodes == {"SUCCESS", "BAD_ARGV", "INTERNAL_ERROR", "LOCAL_ENVIRONMENTAL_ERROR"}

\* C19: ParseOptions returns in the end, with SUCCESS or an error code,
\* whatever the rc files import, and on the way the Parse calls in progress
\* are of different files, so that they are never more than the files there
\* are.
C19_Terminates ==
  /\ <>(pc = "done" /\ exit_code \in ExitCodes)
  /\ [](/\ \A i, j \in 1..Len(frames) :
             frames[i].filename = frames[j].filename => i = j
        /\ {frames[i].filename : i \in 1..Len(frames)} \subseteq DOMAIN fs
        /\ Len(frames) <= Cardinality(DOMAIN fs))

\* a file imported the file that imports it, and ParseOptions returned
C19_Witness ==
  /\ pc = "done"
  /\ exit_code = "BAD_ARGV"
  /\ Len(blazercs_) = 2
  /\ blazercs_[1].filename # blazercs_[2].filename
  /\ \E l \in 1..Len(fs[blazercs_[2].filename]) :
       fs[blazercs_[2].filename][l] = <<"import", blazercs_[1].filename>>

====
